---- MODULE Spec2Model ----
(***************************************************************************)
(* A state-machine model of akiko-venusaur: the SVG path interpreter       *)
(* (lib/svg), the edge classifier (handleSvgInput), the editor's selection *)
(* engine (Editor.svelte) and the Throttle rate limiter (lib/util).        *)
(* Each component has its own specification; under it the variables of    *)
(* the other components keep their initial values.                         *)
(*                                                                         *)
(* Numbers are integers.  Coordinates of path points are even, so that the *)
(* halves taken by pointsToRect are exact; `undefined` is 0 for an edge or *)
(* cell reference and the record Undefined for a value.                    *)
(***************************************************************************)
EXTENDS Integers, Sequences, FiniteSets, TLC

VARIABLES
  \* ---- pathToRects (lib/svg) ----
  points,       \* the in-progress point list
  x, y,         \* the current point
  rects,        \* the Rects emitted so far
  pathDone,     \* pathToRects has returned
  ncmd,         \* number of commands consumed
  lastCommand,  \* history: name of the command consumed last ("" : none)
  traced,       \* history: the pen positions since the last moveto while the
                \* commands follow the pattern move, h, v, h, close
  pat,          \* history: how much of that pattern has been followed
  rectsAtMove,  \* history: Len(rects) at the last moveto
  \* ---- handleSvgInput's classifier loop ----
  svgRects,     \* the candidate Rects consumed so far
  svgEdges,     \* the local `edges` being built
  \* ---- the editor (routes/+page.svelte, Editor.svelte) ----
  svgUrl,       \* editor.svgUrl, naming the document; "" while editor is undefined
  edges,        \* editor.edges
  highlightedEdge,  \* editor.highlightedEdge: a position in edges, 0 if undefined
  selectedEdges,    \* editor.selectedEdges: per kind a position in edges, or 0
  cells,        \* editor.cells
  cellCreatedCount, \* editor.cellCreatedCount
  viewScale,    \* the view-scale slider
  keepVerticalSelection,  \* the keep-vertical-selection checkbox
  \* ---- Throttle (lib/util) ----
  t,            \* Throttle.t, 0 models `undefined`
  queued,       \* Throttle.queued
  looping,      \* Throttle.looping
  depth,        \* number of activations of the consumer f on the call stack
  timers,       \* pending sleep() timers, oldest first; each holds the
                \* number of deliveries made when the sleep started
  lastWoken,    \* the value held by the most recently fired timer (0: none)
  submitted,    \* history: values passed to call(), in order
  delivered,    \* history: values passed to f, in order
  deliveredAt,  \* history: Len(submitted) at each invocation of f
  \* ---- pointsToRect (lib/svg) called on its own ----
  corners,      \* the argument `points`
  reconstructed, \* what the call returned; Pending before it
  \* ---- handleCopyOutput (routes/+page.svelte) ----
  clipboard,    \* whether a text was written and the text written last, as
                \* the key/value pairs of the object serialized, in key order
  alertMessage, \* whether window.alert was called and the name it showed last
  copied,       \* history: editor.cells at the last write to the clipboard
  \* ---- cellNameToCellPosition, cellPositionToCellName (lib/app) ----
  nameArg,      \* the string handed to cellNameToCellPosition
  position,     \* what it returned; Pending before
  printed,      \* whether cellPositionToCellName was called on that result,
                \* and what it returned
  \* ---- findRects (lib/svg) ----
  found,        \* the local `rects` of findRects
  npath,        \* number of path elements whose Rects were pushed
  findReturn    \* "" while findRects runs, then "rects" or "undefined"

pathVars ==
  <<points, x, y, rects, pathDone, ncmd, lastCommand, traced, pat, rectsAtMove>>

classifyVars == <<svgRects, svgEdges>>

throttleVars ==
  <<t, queued, looping, depth, timers, lastWoken, submitted, delivered, deliveredAt>>

editorVars ==
  <<svgUrl, edges, highlightedEdge, selectedEdges, cells, cellCreatedCount,
    viewScale, keepVerticalSelection>>

rectVars == <<corners, reconstructed>>

outputVars == <<clipboard, alertMessage, copied>>

nameVars == <<nameArg, position, printed>>

findVars == <<found, npath, findReturn>>

vars ==
  <<pathVars, classifyVars, editorVars, throttleVars, rectVars, outputVars,
    nameVars, findVars>>

\* What the actions of one component leave alone.
notPathVars ==
  <<classifyVars, editorVars, throttleVars, rectVars, outputVars,
    nameVars, findVars>>

notClassifyVars ==
  <<pathVars, editorVars, throttleVars, rectVars, outputVars,
    nameVars, findVars>>

notThrottleVars ==
  <<pathVars, classifyVars, editorVars, rectVars, outputVars,
    nameVars, findVars>>

notEditorVars ==
  <<pathVars, classifyVars, throttleVars, rectVars, outputVars,
    nameVars, findVars>>

notRectVars ==
  <<pathVars, classifyVars, editorVars, throttleVars, outputVars,
    nameVars, findVars>>

notOutputVars ==
  <<pathVars, classifyVars, throttleVars, rectVars, nameVars, findVars>>

notNameVars ==
  <<pathVars, classifyVars, editorVars, throttleVars, rectVars, outputVars,
    findVars>>

\* findRects runs pathToRects, so only the other components are left alone.
notFindVars ==
  <<classifyVars, editorVars, throttleVars, rectVars, outputVars, nameVars>>

Last(s) == s[Len(s)]

Max(a, b) == IF a >= b THEN a ELSE b

Min(a, b) == IF a <= b THEN a ELSE b

Undefined == [undefined |-> TRUE]

(***************************************************************************)
(* lib/util sortByKeyCached and lib/svg pointsToRect                       *)
(***************************************************************************)

\* The half-open sector of Math.atan2(v.y, v.x) in (-pi, pi]:
\* 0: (-pi, 0), 1: exactly 0 (also atan2(0, 0)), 2: (0, pi), 3: exactly pi.
angleSector(v) ==
  IF v.y < 0 THEN 0
  ELSE IF v.y > 0 THEN 2
  ELSE IF v.x >= 0 THEN 1 ELSE 3

\* vectorAngle(a) < vectorAngle(b), decided exactly on integer vectors.
vectorAngleLess(a, b) ==
  \/ angleSector(a) < angleSector(b)
  \/ /\ angleSector(a) = angleSector(b)
     /\ angleSector(a) \in {0, 2}
     /\ a.x * b.y - a.y * b.x > 0

\* The key of pointsToRect's sort, vectorSub(p, center), scaled by 4 (the
\* angle is the same and the scaled vector is an integer vector).
angleKeyVector(p, sum) == [x |-> 4 * p.x - sum.x, y |-> 4 * p.y - sum.y]

RECURSIVE insertByAngle(_, _, _)
insertByAngle(sorted, p, sum) ==
  IF sorted = <<>> THEN <<p>>
  ELSE IF ~vectorAngleLess(angleKeyVector(Head(sorted), sum), angleKeyVector(p, sum))
    THEN <<p>> \o sorted
    ELSE <<Head(sorted)>> \o insertByAngle(Tail(sorted), p, sum)

\* sortByKeyCached(points, p => vectorAngle(vectorSub(p, center))): a stable
\* ascending sort (Array.prototype.sort is stable).  Inserting the points
\* from the last to the first, each before the first element that is not less,
\* keeps equal keys in their original order.
unsortedPoints(ps, sum) == ps
RECURSIVE sortByKeyCached(_, _)
sortByKeyCached(ps, sum) ==
  IF ps = <<>> THEN <<>>
  ELSE insertByAngle(sortByKeyCached(Tail(ps), sum), Head(ps), sum)

RECURSIVE vectorSum(_)
vectorSum(ps) ==
  IF ps = <<>> THEN [x |-> 0, y |-> 0]
  ELSE LET rest == vectorSum(Tail(ps))
       IN [x |-> Head(ps).x + rest.x, y |-> Head(ps).y + rest.y]

vectorSub(a, b) == [x |-> a.x - b.x, y |-> a.y - b.y]

\* vectorDot(vectorNormalize(v), dir) < THRESHOLD for a unit axis direction
\* dir, where along = vectorDot(v, dir) and THRESHOLD = 1 - 0.001.  The zero
\* vector normalizes to NaN, and NaN < THRESHOLD is false.  With A = along^2
\* and P = |v|^2 - A, the cosine along / |v| is below 999 / 1000 iff along < 0
\* or 1000^2 * A < 999^2 * (A + P), that is (1000^2 - 999^2) * A < 999^2 * P.
\* The two sides are compared by the quotient and remainder of A by P, which
\* keeps every intermediate value within 32 bits.
ThresholdNum == 999
ThresholdDen == 1000
cosineBelowThreshold(v, along) ==
  LET n2 == v.x * v.x + v.y * v.y
      A == along * along
      P == n2 - A
      low == ThresholdDen * ThresholdDen - ThresholdNum * ThresholdNum
      high == ThresholdNum * ThresholdNum
  IN IF n2 = 0 THEN FALSE
     ELSE IF along < 0 THEN TRUE
     ELSE IF P = 0 THEN FALSE
     ELSE IF A \div P < high \div low THEN TRUE
     ELSE IF A \div P > high \div low THEN FALSE
     ELSE low * (A % P) < (high % low) * P

pointsToRect(ps) ==
  IF Len(ps) # 4 THEN Undefined
  ELSE
    LET sorted == sortByKeyCached(ps, vectorSum(ps))
        tl == sorted[1]
        tr == sorted[2]
        br == sorted[3]
        bl == sorted[4]
    IN IF \/ cosineBelowThreshold(vectorSub(tr, tl), tr.x - tl.x)
          \/ cosineBelowThreshold(vectorSub(br, tr), br.y - tr.y)
          \/ cosineBelowThreshold(vectorSub(bl, br), br.x - bl.x)
          \/ cosineBelowThreshold(vectorSub(tl, bl), bl.y - tl.y)
       THEN Undefined
       ELSE [x |-> (tl.x + bl.x) \div 2,
             y |-> (tl.y + tr.y) \div 2,
             width |-> (tr.x - tl.x + br.x - bl.x) \div 2,
             height |-> (bl.y - tl.y + br.y - tr.y) \div 2]

(***************************************************************************)
(* lib/svg pathToRects: one action per iteration of its loop               *)
(***************************************************************************)
MaxCmds == 6

\* The coordinates the commands may lead the current point to.
GridX == {0, 22}
GridY == {0, 2}
DeltaX == {-22, 0, 22}
DeltaY == {-2, 0, 2}

LineCommands == {"lineto", "horizontal lineto", "vertical lineto"}

CurveCommands ==
  {"curveto", "smooth curveto", "quadratic curveto",
   "smooth quadratic curveto", "elliptical arc"}

\* The commands svg-path-parser may hand over that keep the current point,
\* now at (cx, cy), on the grid.
PathCommands(cx, cy) ==
  { [command |-> c, relative |-> FALSE, x |-> px, y |-> py] :
      c \in {"moveto", "lineto"}, px \in GridX, py \in GridY }
  \cup { c \in [command : {"moveto", "lineto"}, relative : {TRUE},
                x : DeltaX, y : DeltaY] :
           cx + c.x \in GridX /\ cy + c.y \in GridY }
  \cup { [command |-> "horizontal lineto", relative |-> FALSE, x |-> px] :
           px \in GridX }
  \cup { c \in [command : {"horizontal lineto"}, relative : {TRUE}, x : DeltaX] :
           cx + c.x \in GridX }
  \cup { [command |-> "vertical lineto", relative |-> FALSE, y |-> py] :
           py \in GridY }
  \cup { c \in [command : {"vertical lineto"}, relative : {TRUE}, y : DeltaY] :
           cy + c.y \in GridY }
  \cup { [command |-> "closepath"] }
  \cup { [command |-> c] : c \in CurveCommands }

PathInit ==
  /\ points = <<>>
  /\ x = 0
  /\ y = 0
  /\ rects = <<>>
  /\ pathDone = FALSE
  /\ ncmd = 0
  /\ lastCommand = ""
  /\ traced = <<>>
  /\ pat = 0
  /\ rectsAtMove = 0

\* `const rect = pointsToRect(points); if (rect !== undefined) rects.push(rect)`
pushRect(rs, ps) ==
  LET rect == pointsToRect(ps)
  IN IF rect = Undefined THEN rs ELSE Append(rs, rect)

\* History only: progress along the pattern move, horizontal line (to another
\* x), vertical line (to another y), horizontal line (back to the first x),
\* close.
patNext(command, nx, ny) ==
  IF command.command = "moveto" THEN 1
  ELSE IF command.command = "horizontal lineto" /\ pat = 1 /\ nx # x THEN 2
  ELSE IF command.command = "vertical lineto" /\ pat = 2 /\ ny # y THEN 3
  ELSE IF command.command = "horizontal lineto" /\ pat = 3 /\ nx = traced[1].x THEN 4
  ELSE IF command.command = "closepath" /\ pat = 4 THEN 5
  ELSE 0

history(command, nx, ny) ==
  /\ lastCommand' = command.command
  /\ pat' = patNext(command, nx, ny)
  /\ traced' = IF pat' = 0 THEN <<>>
               ELSE IF pat' = 1 THEN <<[x |-> nx, y |-> ny]>>
               ELSE IF pat' = 5 THEN traced
               ELSE Append(traced, [x |-> nx, y |-> ny])
  /\ rectsAtMove' = IF command.command = "moveto" THEN Len(rects) ELSE rectsAtMove

\* What every iteration of `for (const command of path)` does besides its
\* case: the loop goes on only until a return.
pathStep(command) ==
  /\ ~pathDone
  /\ ncmd < MaxCmds
  /\ ncmd' = ncmd + 1
  /\ history(command, x', y')
  /\ UNCHANGED notPathVars

\* case "moveto": `points.splice(0)`, then the lineto block.
moveto(command) ==
  /\ command.command = "moveto"
  /\ x' = IF command.relative THEN x + command.x ELSE command.x
  /\ y' = IF command.relative THEN y + command.y ELSE command.y
  /\ points' = <<[x |-> x', y |-> y']>>
  /\ UNCHANGED <<rects, pathDone>>
  /\ pathStep(command)

lineto(command) ==
  /\ command.command = "lineto"
  /\ x' = IF command.relative THEN x + command.x ELSE command.x
  /\ y' = IF command.relative THEN y + command.y ELSE command.y
  /\ points' = Append(points, [x |-> x', y |-> y'])
  /\ UNCHANGED <<rects, pathDone>>
  /\ pathStep(command)

horizontalLineto(command) ==
  /\ command.command = "horizontal lineto"
  /\ x' = IF command.relative THEN x + command.x ELSE command.x
  /\ y' = y
  /\ points' = Append(points, [x |-> x', y |-> y'])
  /\ UNCHANGED <<rects, pathDone>>
  /\ pathStep(command)

\* case "vertical lineto" has no break: after the push it runs the closepath
\* block.
verticalLineto(command) ==
  /\ command.command = "vertical lineto"
  /\ x' = x
  /\ y' = IF command.relative THEN y + command.y ELSE command.y
  /\ rects' = pushRect(rects, Append(points, [x |-> x', y |-> y']))
  /\ points' = <<>>
  /\ UNCHANGED pathDone
  /\ pathStep(command)

closepath(command) ==
  /\ command.command = "closepath"
  /\ rects' = pushRect(rects, points)
  /\ points' = <<>>
  /\ UNCHANGED <<x, y, pathDone>>
  /\ pathStep(command)

\* Whether pathToRects has returned once a curve command was met.
curveBreaks(done) == done
curveReturns(done) == TRUE

\* Any curve command: `return rects`.
curve(command) ==
  /\ command.command \in CurveCommands
  /\ ~pathDone
  /\ ncmd < MaxCmds
  /\ ncmd' = ncmd + 1
  /\ pathDone' = curveReturns(pathDone)
  /\ UNCHANGED <<points, x, y, rects>>
  /\ history(command, x, y)
  /\ UNCHANGED notPathVars

\* The path has no more commands: the final `return rects`.
pathEnd ==
  /\ ~pathDone
  /\ pathDone' = TRUE
  /\ UNCHANGED <<points, x, y, rects, ncmd, lastCommand, traced, pat, rectsAtMove>>
  /\ UNCHANGED notPathVars

PathNext ==
  \/ \E command \in PathCommands(x, y) : moveto(command)
  \/ \E command \in PathCommands(x, y) : lineto(command)
  \/ \E command \in PathCommands(x, y) : horizontalLineto(command)
  \/ \E command \in PathCommands(x, y) : verticalLineto(command)
  \/ \E command \in PathCommands(x, y) : closepath(command)
  \/ \E command \in PathCommands(x, y) : curve(command)
  \/ pathEnd

(***************************************************************************)
(* lib/svg findRects: one pathToRects run per path element                 *)
(***************************************************************************)
MaxPaths == 2

FindInit ==
  /\ found = <<>>
  /\ npath = 0
  /\ findReturn = ""

\* findRects is between two path elements: the locals of pathToRects are
\* those of a call not yet begun.
betweenPaths == ncmd = 0 /\ ~pathDone

\* How findRects takes over what pathToRects returned.
pushNone(fs, rs) == fs
pushAll(fs, rs) == fs \o rs

\* pathToRects runs on the commands of the next path element.
runPath ==
  /\ findReturn = ""
  /\ npath < MaxPaths
  /\ PathNext
  /\ UNCHANGED findVars

\* `for (const rect of pathToRects(path)) rects.push(rect)`; the next call
\* of pathToRects has locals of its own.
collectPath ==
  /\ findReturn = ""
  /\ pathDone
  /\ found' = pushAll(found, rects)
  /\ npath' = npath + 1
  /\ points' = <<>>
  /\ x' = 0
  /\ y' = 0
  /\ rects' = <<>>
  /\ pathDone' = FALSE
  /\ ncmd' = 0
  /\ lastCommand' = ""
  /\ traced' = <<>>
  /\ pat' = 0
  /\ rectsAtMove' = 0
  /\ UNCHANGED findReturn
  /\ UNCHANGED notFindVars

\* svgPathParser.parseSVG(d) throws: `return undefined`.
parseFails ==
  /\ findReturn = ""
  /\ betweenPaths
  /\ npath < MaxPaths
  /\ findReturn' = "undefined"
  /\ UNCHANGED <<found, npath>>
  /\ UNCHANGED pathVars
  /\ UNCHANGED notFindVars

\* No path element is left: `return rects`.
findEnd ==
  /\ findReturn = ""
  /\ betweenPaths
  /\ findReturn' = "rects"
  /\ UNCHANGED <<found, npath>>
  /\ UNCHANGED pathVars
  /\ UNCHANGED notFindVars

FindNext ==
  \/ runPath
  \/ collectPath
  \/ parseFails
  \/ findEnd

(***************************************************************************)
(* handleSvgInput: the loop that turns candidate Rects into Edges          *)
(***************************************************************************)
MaxRects == 2

\* The Rects lib/svg can hand over: sides are never negative (a side is 0
\* when corner points coincide).
RectWidths == {0, 1, 2, 22}
RectHeights == {0, 2, 11, 21, 22}
RectOrigins == {<<0, 0>>, <<4, 6>>}

CandidateRects ==
  { [x |-> o[1], y |-> o[2], width |-> w, height |-> h] :
      o \in RectOrigins, w \in RectWidths, h \in RectHeights }

\* `Math.max(width, height) / Math.min(width, height) < 11` in IEEE
\* arithmetic: a positive number over 0 is Infinity and 0 / 0 is NaN, neither
\* below 11; a negative shorter side gives a quotient of at most 1.
ElongationLimit == 11
ratioBelowLimitInclusive(width, height) ==
  LET mx == Max(width, height)
      mn == Min(width, height)
  IN IF mn > 0 THEN mx <= ElongationLimit * mn ELSE mn < 0
ratioBelowLimit(width, height) ==
  LET mx == Max(width, height)
      mn == Min(width, height)
  IN IF mn > 0 THEN mx < ElongationLimit * mn ELSE mn < 0

\* The body of `for (const { x, y, width, height } of svg.rects)`: the edges
\* one Rect contributes.
rectToEdges(r) ==
  IF ratioBelowLimit(r.width, r.height) THEN <<>>
  ELSE << [kind |-> "top", x |-> r.x, y |-> r.y, width |-> r.width],
          [kind |-> "bottom", x |-> r.x, y |-> r.y + r.height, width |-> r.width],
          [kind |-> "left", x |-> r.x, y |-> r.y, height |-> r.height],
          [kind |-> "right", x |-> r.x + r.width, y |-> r.y, height |-> r.height] >>

\* The whole loop.
RECURSIVE rectsToEdges(_)
rectsToEdges(rs) ==
  IF rs = <<>> THEN <<>> ELSE rectToEdges(Head(rs)) \o rectsToEdges(Tail(rs))

ClassifyInit ==
  /\ svgRects = <<>>
  /\ svgEdges = <<>>

\* One iteration of the loop over the next candidate Rect.
classifyRect(r) ==
  /\ Len(svgRects) < MaxRects
  /\ svgRects' = Append(svgRects, r)
  /\ svgEdges' = svgEdges \o rectToEdges(r)
  /\ UNCHANGED notClassifyVars

ClassifyNext == \E r \in CandidateRects : classifyRect(r)

(***************************************************************************)
(* lib/svg pointsToRect called on the corners of a rectangle               *)
(***************************************************************************)
Pending == [pending |-> TRUE]

\* The direction of a rectangle's first side, as an integer vector: along
\* the x axis, or turned from it by atan(1/60) (0.95 degrees) or by
\* atan(1/10) (5.7 degrees), either way.
AxisDirection == <<1, 0>>
SlightDirections == {<<60, 1>>, <<60, -1>>}
SteepDirections == {<<10, 1>>, <<10, -1>>}
Directions == {AxisDirection} \cup SlightDirections \cup SteepDirections

\* Half the number of direction vectors along the first and the second side:
\* a square, a mark 11 times as long as thick, and marks 120 times as long
\* as thick, lying and standing.
MaxElongation == 120
Shapes == {<<1, 1>>, <<11, 1>>, <<MaxElongation, 1>>, <<1, MaxElongation>>}

Centres == {<<0, 0>>, <<100, 40>>}

\* The corners of the rectangle of a centre, direction and shape, in the
\* order of a traversal; every coordinate is even.
rectangleCorners(c, d, s) ==
  LET ux == 2 * s[1] * d[1]
      uy == 2 * s[1] * d[2]
      vx == -2 * s[2] * d[2]
      vy == 2 * s[2] * d[1]
  IN << [x |-> c[1] - ux - vx, y |-> c[2] - uy - vy],
        [x |-> c[1] + ux - vx, y |-> c[2] + uy - vy],
        [x |-> c[1] + ux + vx, y |-> c[2] + uy + vy],
        [x |-> c[1] - ux + vx, y |-> c[2] - uy + vy] >>

\* The orders in which a caller may hand over four points.
Orderings == {f \in [1..4 -> 1..4] : \A i, j \in 1..4 : i # j => f[i] # f[j]}

reordered(ps, f) == [i \in 1..4 |-> ps[f[i]]]

CornerLists ==
  {reordered(rectangleCorners(c, d, s), f) :
     c \in Centres, d \in Directions, s \in Shapes, f \in Orderings}

RectInit ==
  /\ corners = <<>>
  /\ reconstructed = Pending

\* pointsToRect(points) is called and returns.
callPointsToRect ==
  /\ reconstructed = Pending
  /\ corners # <<>>
  /\ reconstructed' = pointsToRect(corners)
  /\ UNCHANGED corners
  /\ UNCHANGED notRectVars

RectNext == callPointsToRect

(***************************************************************************)
(* lib/app: cell names.  A string is a sequence of one-character strings.  *)
(***************************************************************************)
Digits == <<"0", "1", "2", "3", "4", "5", "6", "7", "8", "9">>

DigitChars == {Digits[i] : i \in 1..Len(Digits)}

ColumnChars == {"a", "b", "c", "d", "e", "f", "g", "h"}

digitValue(c) == (CHOOSE i \in 1..Len(Digits) : Digits[i] = c) - 1

\* Number.prototype.toString of an integer that is not negative.
RECURSIVE numberToString(_)
numberToString(n) ==
  IF n < 10 THEN <<Digits[n + 1]>>
  ELSE Append(numberToString(n \div 10), Digits[(n % 10) + 1])

\* parseInt of a string of decimal digits.
RECURSIVE parseInt(_)
parseInt(s) ==
  IF s = <<>> THEN 0
  ELSE 10 * parseInt(SubSeq(s, 1, Len(s) - 1)) + digitValue(Last(s))

\* /^([a-h])(\d+)$/.exec(name), then parseInt of the second group.
cellNameToCellPosition(name) ==
  IF /\ Len(name) >= 2
     /\ name[1] \in ColumnChars
     /\ \A i \in 2..Len(name) : name[i] \in DigitChars
  THEN [column |-> name[1], row |-> parseInt(Tail(name))]
  ELSE Undefined

cellPositionToCellName(p) == <<p.column>> \o numberToString(p.row)

\* The strings tried as names: up to MaxNameLen characters, among them the
\* first and the last column letter, the letter after it, an upper-case
\* letter and digits.
MaxNameLen == 3
NameChars == {"a", "h", "i", "A", "0", "1", "9"}
NameStrings == UNION {[1..n -> NameChars] : n \in 0..MaxNameLen}

NotPrinted == [done |-> FALSE, text |-> <<>>]

NameInit ==
  /\ nameArg = <<>>
  /\ position = Pending
  /\ printed = NotPrinted

\* cellNameToCellPosition(nameArg) is called and returns.
callCellNameToCellPosition ==
  /\ position = Pending
  /\ position' = cellNameToCellPosition(nameArg)
  /\ UNCHANGED <<nameArg, printed>>
  /\ UNCHANGED notNameVars

\* cellPositionToCellName is called on the CellPosition returned.
callCellPositionToCellName ==
  /\ position # Pending
  /\ position # Undefined
  /\ ~printed.done
  /\ printed' = [done |-> TRUE, text |-> cellPositionToCellName(position)]
  /\ UNCHANGED <<nameArg, position>>
  /\ UNCHANGED notNameVars

NamesNext == callCellNameToCellPosition \/ callCellPositionToCellName

(***************************************************************************)
(* lib/app: distance of a point to the segment of an edge                  *)
(***************************************************************************)
edgeToSegment(e) ==
  IF e.kind \in {"top", "bottom"}
    THEN [start |-> [x |-> e.x, y |-> e.y], end |-> [x |-> e.x + e.width, y |-> e.y]]
    ELSE [start |-> [x |-> e.x, y |-> e.y], end |-> [x |-> e.x, y |-> e.y + e.height]]

clamp(v, lo, hi) == IF v < lo THEN lo ELSE IF v > hi THEN hi ELSE v

sign(v) == IF v > 0 THEN 1 ELSE IF v < 0 THEN -1 ELSE 0

abs(v) == IF v < 0 THEN -v ELSE v

\* A distance that is NaN: every comparison with it is false.
NaN == -1

\* The square of pointSegmentDistance(s, p) for a segment along an axis; NaN
\* for a segment of length 0, whose direction vectorNormalize makes NaN.
pointSegmentDistanceSq(s, p) ==
  LET dx == s.end.x - s.start.x
      dy == s.end.y - s.start.y
      ux == sign(dx)
      uy == sign(dy)
      len == abs(dx) + abs(dy)
      mag == (p.x - s.start.x) * ux + (p.y - s.start.y) * uy
      off == clamp(mag, 0, len)
      ex == p.x - (s.start.x + ux * off)
      ey == p.y - (s.start.y + uy * off)
  IN IF len = 0 THEN NaN ELSE ex * ex + ey * ey

\* a < b on distances given by their squares.
distanceLess(a, b) == a # NaN /\ b # NaN /\ a < b

(***************************************************************************)
(* routes/+page.svelte and Editor.svelte: the editor                       *)
(***************************************************************************)
MaxCells == 2
MaxColumnCells == 3

cellLimit(url) == IF url = "column" THEN MaxColumnCells ELSE MaxCells

\* The documents loaded: the Rects parseSvg returns for each.
\* "frame": four border marks of thickness 2 around (10,10)-(90,90).
FrameRects ==
  << [x |-> 8, y |-> 8, width |-> 84, height |-> 2],
     [x |-> 8, y |-> 90, width |-> 84, height |-> 2],
     [x |-> 8, y |-> 8, width |-> 2, height |-> 84],
     [x |-> 90, y |-> 8, width |-> 2, height |-> 84] >>

\* "column": two vertical and four horizontal marks of thickness 60 bounding
\* three stacked cells, 600 wide and 200 high, with tops at 100, 360 and 620.
\* Every edge of a mark is at least 50 away from the cursor positions on its
\* other edges, so each position selects the one edge it lies on.
ColumnRects ==
  << [x |-> 40, y |-> 40, width |-> 60, height |-> 840],
     [x |-> 700, y |-> 40, width |-> 60, height |-> 840],
     [x |-> 40, y |-> 40, width |-> 720, height |-> 60],
     [x |-> 40, y |-> 300, width |-> 720, height |-> 60],
     [x |-> 40, y |-> 560, width |-> 720, height |-> 60],
     [x |-> 40, y |-> 820, width |-> 720, height |-> 60] >>

\* "box": two vertical and three horizontal marks of thickness 60 bounding
\* a cell 600 wide with its top at 100 and its bottom at 300 or at 560.
BoxRects ==
  << [x |-> 40, y |-> 40, width |-> 60, height |-> 660],
     [x |-> 700, y |-> 40, width |-> 60, height |-> 660],
     [x |-> 40, y |-> 40, width |-> 720, height |-> 60],
     [x |-> 40, y |-> 300, width |-> 720, height |-> 60],
     [x |-> 40, y |-> 560, width |-> 720, height |-> 60] >>

svgRectsOf(url) ==
  IF url = "frame" THEN FrameRects
  ELSE IF url = "column" THEN ColumnRects
  ELSE BoxRects

\* The cursor positions tried, in image coordinates; NoPosition is a pointer
\* event whose target is not the image.
NoPosition == [none |-> TRUE]

CursorPositions(url) ==
  IF url = "frame"
  THEN { [x |-> 15, y |-> 50], [x |-> 50, y |-> 10], [x |-> 90, y |-> 50],
         [x |-> 50, y |-> 90] }
  ELSE IF url = "box"
  THEN { [x |-> 100, y |-> 200], [x |-> 700, y |-> 200],
         [x |-> 400, y |-> 100], [x |-> 400, y |-> 300], [x |-> 400, y |-> 560] }
  ELSE { [x |-> 100, y |-> 200], [x |-> 700, y |-> 200], [x |-> 40, y |-> 200],
         [x |-> 400, y |-> 100], [x |-> 400, y |-> 300], [x |-> 400, y |-> 360],
         [x |-> 400, y |-> 560], [x |-> 400, y |-> 620], [x |-> 400, y |-> 820] }

ViewScales == {1, 10}

\* The texts typed into a cell's name field.
NameInputs == { <<"b", "9">>, <<"z", "9">> }

Kinds == {"top", "right", "bottom", "left"}

NoSelection == [top |-> 0, right |-> 0, bottom |-> 0, left |-> 0]

EditorInit ==
  /\ svgUrl = ""
  /\ edges = <<>>
  /\ highlightedEdge = 0
  /\ selectedEdges = NoSelection
  /\ cells = <<>>
  /\ cellCreatedCount = 0
  /\ viewScale = 1
  /\ keepVerticalSelection = TRUE

\* `editor !== undefined`
Urls == {"frame", "column", "box"}

loadedEdges(url) == rectsToEdges(svgRectsOf(url))

loaded == svgUrl # ""

\* handleSvgInput for a file that parses: a new EditorState.
handleSvgInput(url) ==
  /\ svgUrl' = url
  /\ edges' = loadedEdges(url)
  /\ highlightedEdge' = 0
  /\ selectedEdges' = NoSelection
  /\ cells' = <<>>
  /\ cellCreatedCount' = 0
  /\ UNCHANGED <<viewScale, keepVerticalSelection>>
  /\ UNCHANGED notEditorVars

\* pointSegmentDistance(edgeToSegment(e), p) < 50 / viewScale
SelectThreshold == 50
withinThresholdInclusive(dsq, scale) ==
  dsq # NaN /\ dsq * scale * scale <= SelectThreshold * SelectThreshold
withinThreshold(dsq, scale) ==
  dsq # NaN /\ dsq * scale * scale < SelectThreshold * SelectThreshold

\* The distances are tabulated once per document: handleSvgInput makes the
\* edge list and nothing changes it afterwards, so the i-th edge of the list
\* is the i-th edge of the document loaded.
distanceSqTable ==
  [u \in Urls |->
    [i \in 1..Len(loadedEdges(u)) |->
      [p \in CursorPositions(u) |->
        pointSegmentDistanceSq(edgeToSegment(loadedEdges(u)[i]), p)]]]

edgeDistanceSq(i, p) == distanceSqTable[svgUrl][i][p]

\* `minKey > key`, where minKey starts as Infinity.
Infinity == -2
keyLess(key, minKey) ==
  IF minKey = Infinity THEN key # NaN ELSE distanceLess(key, minKey)

\* minByKey over the edges numbered by `is`, in order: the first one of the
\* least distance, 0 (undefined) if there is none (or all are NaN).
RECURSIVE minByKeyFrom(_, _, _, _)
minByKeyFrom(is, p, minKey, bestT) ==
  IF is = <<>> THEN bestT
  ELSE LET key == edgeDistanceSq(Head(is), p)
       IN IF keyLess(key, minKey)
          THEN minByKeyFrom(Tail(is), p, key, Head(is))
          ELSE minByKeyFrom(Tail(is), p, minKey, bestT)

minByKey(is, p) == minByKeyFrom(is, p, Infinity, 0)

Indices(s) == [i \in 1..Len(s) |-> i]

\* getClosestSelectableEdge(app, p) at a view scale: the number of the edge
\* in app.edges, or 0.
getClosestSelectableEdge(sel, p, scale) ==
  LET es == SelectSeq(Indices(edges), LAMBDA i : sel[edges[i].kind] = 0)
      e == minByKey(es, p)
  IN IF e = 0 THEN 0
     ELSE IF withinThreshold(edgeDistanceSq(e, p), scale) THEN e ELSE 0

\* The consumer of handleMouseMoveThrottled.
handleMouseMove(p) ==
  /\ loaded
  /\ highlightedEdge' =
       IF p = NoPosition THEN 0
       ELSE getClosestSelectableEdge(selectedEdges, p, viewScale)
  /\ UNCHANGED <<svgUrl, edges, selectedEdges, cells, cellCreatedCount,
                 viewScale, keepVerticalSelection>>
  /\ UNCHANGED notEditorVars

\* The cells of `cs` directly above a cell of the given rect, as indices.
alignedAbove(cs, rect) ==
  SelectSeq(Indices(cs), LAMBDA i :
    /\ cs[i].rect.y + cs[i].rect.height < rect.y
    /\ 2 * cs[i].rect.x <= 2 * rect.x + rect.width
    /\ 2 * rect.x + rect.width <= 2 * (cs[i].rect.x + cs[i].rect.width))

\* maxByKey(alignedCells, c => c.rect.y + c.rect.height): the first one of
\* the greatest key, 0 if there is none.
RECURSIVE minBottomFrom(_, _, _)
minBottomFrom(is, cs, best) ==
  IF is = <<>> THEN best
  ELSE LET c == cs[Head(is)]
           better == \/ best = 0
                     \/ cs[best].rect.y + cs[best].rect.height > c.rect.y + c.rect.height
       IN minBottomFrom(Tail(is), cs, IF better THEN Head(is) ELSE best)
RECURSIVE maxByKeyFrom(_, _, _)
maxByKeyFrom(is, cs, best) ==
  IF is = <<>> THEN best
  ELSE LET c == cs[Head(is)]
           better == \/ best = 0
                     \/ cs[best].rect.y + cs[best].rect.height < c.rect.y + c.rect.height
       IN maxByKeyFrom(Tail(is), cs, IF better THEN Head(is) ELSE best)

\* The name given to a new cell: its default, or the label below cellAbove's.
inferredName(cs, rect, default) ==
  LET cellAbove == maxByKeyFrom(alignedAbove(cs, rect), cs, 0)
      pos == IF cellAbove = 0 THEN Undefined
             ELSE cellNameToCellPosition(cs[cellAbove].name)
  IN IF pos = Undefined THEN default
     ELSE cellPositionToCellName([column |-> pos.column, row |-> pos.row + 1])

\* The Rect of the cell bounded by four selected edges.
cellRectFromLeft(sel) ==
  [x |-> edges[sel.left].x,
   y |-> edges[sel.top].y,
   width |-> edges[sel.right].x - edges[sel.left].x,
   height |-> edges[sel.bottom].y - edges[sel.top].y]
cellRect(sel) ==
  [x |-> edges[sel.right].x,
   y |-> edges[sel.bottom].y,
   width |-> edges[sel.left].x - edges[sel.right].x,
   height |-> edges[sel.top].y - edges[sel.bottom].y]

\* Which slots a completion leaves filled.
afterCompletionClearsAll(sel, keep) == NoSelection
afterCompletionKeepsAll(sel, keep) == IF keep THEN sel ELSE NoSelection
afterCompletion(sel, keep) ==
  IF keep THEN [sel EXCEPT !.top = 0, !.bottom = 0] ELSE NoSelection

\* editor.cellCreatedCount++, then id: editor.cellCreatedCount
nextCellIdFromLength(count, cs) == Len(cs) + 1
nextCellId(count, cs) == count + 1

\* editor.selectedEdges[closest.kind] = closest
selectEdgeAsTop(sel, e) == [sel EXCEPT !.top = e]
selectEdge(sel, e) == [sel EXCEPT ![edges[e].kind] = e]

handleClick(p) ==
  /\ loaded
  /\ cellCreatedCount < cellLimit(svgUrl)
  /\ LET closest == IF p = NoPosition THEN 0
                    ELSE getClosestSelectableEdge(selectedEdges, p, viewScale)
         sel == IF closest = 0 THEN selectedEdges
                ELSE selectEdge(selectedEdges, closest)
     IN IF closest # 0 /\ \A k \in Kinds : sel[k] # 0
        THEN LET id == nextCellId(cellCreatedCount, cells)
                 rect == cellRect(sel)
                 cell == [id |-> id,
                          name |-> inferredName(cells, rect, numberToString(id)),
                          rect |-> rect]
             IN /\ cellCreatedCount' = id
                /\ cells' = Append(cells, cell)
                /\ highlightedEdge' = 0
                /\ selectedEdges' = afterCompletion(sel, keepVerticalSelection)
        ELSE /\ selectedEdges' = sel
             /\ UNCHANGED <<cells, cellCreatedCount, highlightedEdge>>
  /\ UNCHANGED <<svgUrl, edges, viewScale, keepVerticalSelection>>
  /\ UNCHANGED notEditorVars

\* editor.cells.indexOf(cell), the cell being the object of the given id:
\* its place in the list, 0 (for -1) if it is not in it.
RECURSIVE indexOfFrom(_, _, _)
indexOfFrom(cs, id, i) ==
  IF i > Len(cs) THEN 0
  ELSE IF cs[i].id = id THEN i
  ELSE indexOfFrom(cs, id, i + 1)

indexOf(cs, id) == indexOfFrom(cs, id, 1)

\* `if (i >= 0) editor.cells.splice(i, 1)`; splice(-1, 1) on its own would
\* remove the last cell.
spliceUnguarded(cs, i) ==
  IF i = 0 THEN SubSeq(cs, 1, Len(cs) - 1)
  ELSE SubSeq(cs, 1, i - 1) \o SubSeq(cs, i + 1, Len(cs))
spliceIfFound(cs, i) ==
  IF i >= 1 THEN SubSeq(cs, 1, i - 1) \o SubSeq(cs, i + 1, Len(cs))
  ELSE cs

\* handleCellDelete of the cell object of the given id, in the list or not.
handleCellDelete(id) ==
  /\ loaded
  /\ cells' = spliceIfFound(cells, indexOf(cells, id))
  /\ UNCHANGED <<svgUrl, edges, highlightedEdge, selectedEdges, cellCreatedCount,
                 viewScale, keepVerticalSelection>>
  /\ UNCHANGED notEditorVars

\* The cells of `cs` directly below the i-th, as indices.
alignedBelow(cs, i) ==
  SelectSeq(Indices(cs), LAMBDA j :
    /\ cs[i].rect.y + cs[i].rect.height < cs[j].rect.y
    /\ 2 * cs[j].rect.x <= 2 * cs[i].rect.x + cs[i].rect.width
    /\ 2 * cs[i].rect.x + cs[i].rect.width <= 2 * (cs[j].rect.x + cs[j].rect.width))

\* alignedCells.sort((a, b) => a.rect.y - b.rect.y), a stable sort.
RECURSIVE insertByY(_, _, _)
insertByY(sorted, j, cs) ==
  IF sorted = <<>> THEN <<j>>
  ELSE IF ~(cs[Head(sorted)].rect.y < cs[j].rect.y) THEN <<j>> \o sorted
  ELSE <<Head(sorted)>> \o insertByY(Tail(sorted), j, cs)

unsorted(is, cs) == is
RECURSIVE sortByY(_, _)
sortByY(is, cs) ==
  IF is = <<>> THEN <<>> ELSE insertByY(sortByY(Tail(is), cs), Head(is), cs)

\* The loop that names alignedCells[k] column, row + k + 1 (k from 0).
RECURSIVE renameFrom(_, _, _, _)
renameFrom(cs, is, column, row) ==
  IF is = <<>> THEN cs
  ELSE renameFrom(
         [cs EXCEPT ![Head(is)].name =
            cellPositionToCellName([column |-> column, row |-> row])],
         Tail(is), column, row + 1)

\* handleCellNameInput of the i-th cell of the list.
handleCellNameInput(i, value) ==
  /\ loaded
  /\ i \in 1..Len(cells)
  /\ LET named == [cells EXCEPT ![i].name = value]
         pos == cellNameToCellPosition(value)
     IN cells' =
          IF pos = Undefined THEN named
          ELSE renameFrom(named, sortByY(alignedBelow(named, i), named),
                          pos.column, pos.row + 1)
  /\ UNCHANGED <<svgUrl, edges, highlightedEdge, selectedEdges, cellCreatedCount,
                 viewScale, keepVerticalSelection>>
  /\ UNCHANGED notEditorVars

\* The clear-selection button, enabled while some slot is filled.
clearSelection ==
  /\ loaded
  /\ \E k \in Kinds : selectedEdges[k] # 0
  /\ selectedEdges' = NoSelection
  /\ UNCHANGED <<svgUrl, edges, highlightedEdge, cells, cellCreatedCount,
                 viewScale, keepVerticalSelection>>
  /\ UNCHANGED notEditorVars

\* The keep-vertical-selection checkbox.
toggleKeepVerticalSelection ==
  /\ keepVerticalSelection' = ~keepVerticalSelection
  /\ UNCHANGED <<svgUrl, edges, highlightedEdge, selectedEdges, cells,
                 cellCreatedCount, viewScale>>
  /\ UNCHANGED notEditorVars

\* The view-scale slider.
setViewScale(s) ==
  /\ viewScale' = s
  /\ UNCHANGED <<svgUrl, edges, highlightedEdge, selectedEdges, cells,
                 cellCreatedCount, keepVerticalSelection>>
  /\ UNCHANGED notEditorVars

EditorNext ==
  \/ \E p \in CursorPositions(svgUrl) \cup {NoPosition} : handleMouseMove(p)
  \/ \E p \in CursorPositions(svgUrl) \cup {NoPosition} : handleClick(p)
  \/ \E id \in 1..cellCreatedCount : handleCellDelete(id)
  \/ \E i \in 1..Len(cells), value \in NameInputs : handleCellNameInput(i, value)
  \/ clearSelection
  \/ toggleKeepVerticalSelection
  \/ \E s \in ViewScales : setViewScale(s)

Next == handleSvgInput("frame") \/ EditorNext

NextColumn ==
  \/ handleSvgInput("column")
  \/ \E p \in CursorPositions(svgUrl) \cup {NoPosition} : handleClick(p)
  \/ \E id \in 1..cellCreatedCount : handleCellDelete(id)
  \/ \E i \in 1..Len(cells), value \in NameInputs : handleCellNameInput(i, value)

(***************************************************************************)
(* routes/+page.svelte handleCopyOutput and lib/app cellPositionCompare    *)
(***************************************************************************)
\* Nothing written to the clipboard yet, no alert shown yet.
NoOutput == [written |-> FALSE, text |-> <<>>]
NoAlert == [shown |-> FALSE, name |-> <<>>]

OutputInit ==
  /\ clipboard = NoOutput
  /\ alertMessage = NoAlert
  /\ copied = <<>>

\* The order of the one-letter strings that are columns.
Columns == <<"a", "b", "c", "d", "e", "f", "g", "h">>

columnRank(c) == CHOOSE i \in 1..Len(Columns) : Columns[i] = c

cellPositionCompare(a, b) ==
  IF columnRank(a.column) < columnRank(b.column) THEN -1
  ELSE IF columnRank(a.column) > columnRank(b.column) THEN 1
  ELSE a.row - b.row

\* The first loop: the first cell whose name does not parse, 0 if none.
RECURSIVE firstInvalidFrom(_, _)
firstInvalidFrom(cs, i) ==
  IF i > Len(cs) THEN 0
  ELSE IF cellNameToCellPosition(cs[i].name) = Undefined THEN i
  ELSE firstInvalidFrom(cs, i + 1)

\* The comparator handed to toSorted.
compareByName(a, b) ==
  cellPositionCompare(cellNameToCellPosition(a.name),
                      cellNameToCellPosition(b.name))

RECURSIVE insertByPosition(_, _)
insertByPosition(sorted, c) ==
  IF sorted = <<>> THEN <<c>>
  ELSE IF compareByName(c, Head(sorted)) <= 0 THEN <<c>> \o sorted
  ELSE <<Head(sorted)>> \o insertByPosition(Tail(sorted), c)

\* editor.cells.toSorted(...), a stable sort.
unsortedCells(cs) == cs
RECURSIVE toSorted(_)
toSorted(cs) ==
  IF cs = <<>> THEN <<>> ELSE insertByPosition(toSorted(Tail(cs)), Head(cs))

\* obj[key] = value on an object given as its properties in key order: a key
\* that is there keeps its place, a new one (never an array index here, as it
\* starts with a letter) comes last.
setProperty(obj, key, value) ==
  IF \E i \in 1..Len(obj) : obj[i].key = key
  THEN [i \in 1..Len(obj) |->
          IF obj[i].key = key THEN [key |-> key, value |-> value] ELSE obj[i]]
  ELSE Append(obj, [key |-> key, value |-> value])

\* The second loop, building cellNameToRect.
RECURSIVE cellNameToRect(_, _)
cellNameToRect(cs, obj) ==
  IF cs = <<>> THEN obj
  ELSE cellNameToRect(Tail(cs), setProperty(obj, Head(cs).name, Head(cs).rect))

\* JSON.stringify(cellNameToRect, undefined, 2) writes the properties in key
\* order; the text is given by the sequence of its key/value pairs.
stringify(obj) == obj

handleCopyOutput ==
  /\ loaded
  /\ LET bad == firstInvalidFrom(cells, 1)
     IN IF bad # 0
        THEN /\ alertMessage' = [shown |-> TRUE, name |-> cells[bad].name]
             /\ UNCHANGED <<clipboard, copied>>
        ELSE /\ clipboard' =
                  [written |-> TRUE,
                   text |-> stringify(cellNameToRect(toSorted(cells), <<>>))]
             /\ copied' = cells
             /\ UNCHANGED alertMessage
  /\ UNCHANGED editorVars
  /\ UNCHANGED notOutputVars

\* The names typed before an export.
ExportNameInputs == NameInputs \cup { <<"a", "1", "0">>, <<"b", "1", "0">> }

NextExport ==
  \/ handleSvgInput("box")
  \/ \E p \in CursorPositions(svgUrl) : handleClick(p)
  \/ \E i \in 1..Len(cells), value \in ExportNameInputs : handleCellNameInput(i, value)
  \/ handleCopyOutput

(***************************************************************************)
(* lib/util Throttle                                                       *)
(***************************************************************************)
MaxCalls == 4
MaxVal == 2
Values == 1..MaxVal

ThrottleInit ==
  /\ t = 0
  /\ queued = FALSE
  /\ looping = FALSE
  /\ depth = 0
  /\ timers = <<>>
  /\ lastWoken = 0
  /\ submitted = <<>>
  /\ delivered = <<>>
  /\ deliveredAt = <<>>

\* call(): whether the call starts a delivery loop (`if (!this.looping)`).
StartsLoopAlways(isLooping) == TRUE
StartsLoop(isLooping) == ~isLooping

\* call(): the value stored in the single slot (`this.t = t`).
StoredValueKeepsPending(old, new, pending) == IF pending THEN old ELSE new
StoredValue(old, new, pending) == new

\* call(t), from an event handler (depth = 0) or from inside f (depth > 0).
\* When no loop is running, loop() runs synchronously up to its first await:
\* it sets looping, finds queued set and enters f(this.t).
call(v) ==
  /\ Len(submitted) < MaxCalls
  /\ t' = StoredValue(t, v, queued)
  /\ queued' = TRUE
  /\ submitted' = Append(submitted, v)
  /\ IF StartsLoop(looping)
       THEN /\ looping' = TRUE
            /\ delivered' = Append(delivered, t')
            /\ deliveredAt' = Append(deliveredAt, Len(submitted'))
            /\ depth' = depth + 1
       ELSE UNCHANGED <<looping, delivered, deliveredAt, depth>>
  /\ UNCHANGED <<timers, lastWoken>>
  /\ UNCHANGED notThrottleVars

\* f returns into loop(): `this.queued = false; await sleep(this.interval)`.
\* The loop suspends and control returns to whoever called call() or to the
\* event loop.
fReturn ==
  /\ depth > 0
  /\ depth' = depth - 1
  /\ queued' = FALSE
  /\ timers' = Append(timers, Len(delivered))
  /\ UNCHANGED <<t, looping, lastWoken, submitted, delivered, deliveredAt>>
  /\ UNCHANGED notThrottleVars

\* The oldest timer fires (all timers of one instance share one interval) and
\* the suspended loop re-checks `while (this.queued)`.
wake ==
  /\ depth = 0
  /\ timers # <<>>
  /\ timers' = Tail(timers)
  /\ lastWoken' = Head(timers)
  /\ IF queued
       THEN /\ delivered' = Append(delivered, t)
            /\ deliveredAt' = Append(deliveredAt, Len(submitted))
            /\ depth' = depth + 1
            /\ UNCHANGED looping
       ELSE /\ looping' = FALSE
            /\ UNCHANGED <<delivered, deliveredAt, depth>>
  /\ UNCHANGED <<t, queued, submitted>>
  /\ UNCHANGED notThrottleVars

ThrottleNext ==
  \/ \E v \in Values : call(v)
  \/ fReturn
  \/ wake

\* No loop is running or suspended and no consumer activation is in progress.
ThrottleQuiescent == ~looping /\ depth = 0 /\ timers = <<>>

(***************************************************************************)
(* Specifications                                                          *)
(***************************************************************************)
Init ==
  /\ PathInit /\ ClassifyInit /\ EditorInit /\ ThrottleInit /\ RectInit
  /\ OutputInit /\ NameInit /\ FindInit

Spec == Init /\ [][Next]_vars

SpecColumn == Init /\ [][NextColumn]_vars

SpecPath == Init /\ [][PathNext]_vars

SpecFind == Init /\ [][FindNext]_vars

SpecClassify == Init /\ [][ClassifyNext]_vars

SpecThrottle == Init /\ [][ThrottleNext]_vars

SpecExport == Init /\ [][NextExport]_vars

\* pointsToRect on its own: the argument is any of CornerLists.
InitRect ==
  /\ PathInit /\ ClassifyInit /\ EditorInit /\ ThrottleInit /\ OutputInit
  /\ NameInit /\ FindInit
  /\ corners \in CornerLists
  /\ reconstructed = Pending

SpecRect == InitRect /\ [][RectNext]_vars

\* The two name functions on their own: the argument is any of NameStrings.
InitNames ==
  /\ PathInit /\ ClassifyInit /\ EditorInit /\ ThrottleInit /\ RectInit
  /\ OutputInit /\ FindInit
  /\ nameArg \in NameStrings
  /\ position = Pending
  /\ printed = NotPrinted

SpecNames == InitNames /\ [][NamesNext]_vars

(***************************************************************************)
(* Properties                                                              *)
(***************************************************************************)

\* C1: at quiescence, after at least one submission, the consumer has been
\* invoked and the last delivered value is the last submitted value.
ThrottleDeliversLast ==
  (ThrottleQuiescent /\ submitted # <<>>) =>
    (delivered # <<>> /\ Last(delivered) = Last(submitted))

\* C2: every invocation of f after the first happens only once a sleep that
\* started after the previous invocation has completed.
ThrottleRateBound ==
  [][(Len(delivered') > Len(delivered) /\ Len(delivered) >= 1)
       => lastWoken' = Len(delivered)]_vars

\* A second delivery made by a loop that a later call() started after the
\* previous loop had terminated.
ThrottleRateBoundWitness ==
  /\ Len(delivered) >= 2
  /\ timers = <<>>
  /\ depth = 1
  /\ lastWoken = Len(delivered) - 1

\* C3: each invocation of f receives the value of the latest call() made
\* before it, deliveries consume strictly later submissions each time (so an
\* overwritten value is never delivered and the delivered values are a
\* subsequence of the submitted ones), and only the slot value is pending.
ThrottleCoalesces ==
  /\ Len(deliveredAt) = Len(delivered)
  /\ \A i \in 1..Len(delivered) :
       /\ deliveredAt[i] \in 1..Len(submitted)
       /\ delivered[i] = submitted[deliveredAt[i]]
  /\ \A i \in 1..(Len(delivered) - 1) : deliveredAt[i] < deliveredAt[i + 1]
  /\ (queued => t = Last(submitted))

\* Two submissions arrived during one sleep and only the later one, with a
\* different value, was delivered.
ThrottleCoalescesWitness ==
  /\ Len(delivered) = 2
  /\ deliveredAt = <<1, 3>>
  /\ submitted[2] # submitted[3]

\* The claim's reading of "max(width, height) / min(width, height) < 11" for
\* sides that are not negative: a quotient by 0 is not below 11.
ElongationBelow11(r) ==
  /\ Min(r.width, r.height) > 0
  /\ Max(r.width, r.height) < 11 * Min(r.width, r.height)

SurvivorsBefore(i) ==
  Cardinality({j \in 1..(i - 1) : ~ElongationBelow11(svgRects[j])})

\* C9: a Rect of elongation below 11 contributes no edge and every other Rect
\* contributes its top, bottom, left and right edge, in this order and in the
\* order of the Rects, so there are 4 edges per surviving Rect.
ClassifierFourEdgesPerSurvivor ==
  /\ Len(svgEdges) = 4 * SurvivorsBefore(Len(svgRects) + 1)
  /\ \A i \in 1..Len(svgRects) :
       ~ElongationBelow11(svgRects[i]) =>
         LET r == svgRects[i]
             b == 4 * SurvivorsBefore(i)
         IN /\ svgEdges[b + 1] =
                 [kind |-> "top", x |-> r.x, y |-> r.y, width |-> r.width]
            /\ svgEdges[b + 2] =
                 [kind |-> "bottom", x |-> r.x, y |-> r.y + r.height, width |-> r.width]
            /\ svgEdges[b + 3] =
                 [kind |-> "left", x |-> r.x, y |-> r.y, height |-> r.height]
            /\ svgEdges[b + 4] =
                 [kind |-> "right", x |-> r.x + r.width, y |-> r.y, height |-> r.height]

\* A Rect of elongation 10.5 was dropped and one of elongation exactly 11 at
\* another origin gave four edges.
ClassifierWitness ==
  /\ Len(svgRects) = 2
  /\ svgRects[1] = [x |-> 0, y |-> 0, width |-> 2, height |-> 21]
  /\ svgRects[2] = [x |-> 4, y |-> 6, width |-> 2, height |-> 22]
  /\ Len(svgEdges) = 4
  /\ svgEdges[4] = [kind |-> "right", x |-> 6, y |-> 6, height |-> 22]

\* The Rect whose corners are the points of a traced rectangle.
BoundingRect(ps) ==
  LET xs == {ps[i].x : i \in 1..Len(ps)}
      ys == {ps[i].y : i \in 1..Len(ps)}
      left == CHOOSE v \in xs : \A w \in xs : v <= w
      top == CHOOSE v \in ys : \A w \in ys : v <= w
      right == CHOOSE v \in xs : \A w \in xs : v >= w
      bottom == CHOOSE v \in ys : \A w \in ys : v >= w
  IN [x |-> left, y |-> top, width |-> right - left, height |-> bottom - top]

\* C10, first part: a line, horizontal-line or vertical-line command appends
\* the new current point to the point list and emits nothing, and only a
\* close command emits.
PathLineCommandAppendsOnly ==
  /\ (ncmd' = ncmd + 1 /\ lastCommand' \in LineCommands) =>
       /\ rects' = rects
       /\ points' = Append(points, [x |-> x', y |-> y'])
  /\ (ncmd' = ncmd + 1 /\ rects' # rects) => lastCommand' = "closepath"

\* C10, second part: after move, horizontal line, vertical line, horizontal
\* line, close around a rectangle, exactly one Rect has been emitted since the
\* move, and it is that rectangle.
PathTracedRectangleEmitted ==
  pat = 5 =>
    /\ Len(traced) = 4
    /\ Len(rects) = rectsAtMove + 1
    /\ Last(rects) = BoundingRect(traced)

\* C10: line commands only append, close alone emits, and a rectangle traced
\* with horizontal and vertical lines yields one Rect.
PathLinesAppendCloseEmits ==
  [][PathLineCommandAppendsOnly]_vars /\ []PathTracedRectangleEmitted

\* The slots that hold an edge.
filledSlots(sel) == {k \in Kinds : sel[k] # 0}

\* The click at p selects an edge and that edge fills the last empty slot.
fillsFourthSlot(p) ==
  /\ p # NoPosition
  /\ Cardinality(filledSlots(selectedEdges)) = 3
  /\ getClosestSelectableEdge(selectedEdges, p, viewScale) # 0

\* C4: a click that fills the fourth slot appends exactly one cell, whose id
\* is greater than the id of every cell created before it in the document
\* (no id ever exceeds the creation counter, which only a new document
\* lowers), and leaves the top and bottom slots empty whatever
\* keepVerticalSelection is; any other click appends no cell and leaves the
\* creation counter alone.
CellCompletion ==
  /\ [](\A i \in 1..Len(cells) : cells[i].id <= cellCreatedCount)
  /\ [][/\ (cellCreatedCount' < cellCreatedCount => cells' = <<>>)
        /\ \A p \in CursorPositions(svgUrl) \cup {NoPosition} :
             handleClick(p) =>
               IF fillsFourthSlot(p)
               THEN /\ Len(cells') = Len(cells) + 1
                    /\ SubSeq(cells', 1, Len(cells)) = cells
                    /\ Last(cells').id > cellCreatedCount
                    /\ Last(cells').id <= cellCreatedCount'
                    /\ \A i \in 1..Len(cells) : Last(cells').id > cells[i].id
                    /\ selectedEdges'.top = 0
                    /\ selectedEdges'.bottom = 0
               ELSE /\ cells' = cells
                    /\ cellCreatedCount' = cellCreatedCount]_vars

\* A second cell was completed with keepVerticalSelection disabled, after the
\* first one had been deleted: every slot is empty and the id is 2.
CellCompletionWitness ==
  /\ ~keepVerticalSelection
  /\ cellCreatedCount = 2
  /\ Len(cells) = 1
  /\ cells[1].id = 2
  /\ highlightedEdge = 0
  /\ selectedEdges = NoSelection

\* The edges whose slot is empty.
selectable == {i \in 1..Len(edges) : selectedEdges[edges[i].kind] = 0}

\* The distance of edge i to p is below 50 / scale.
belowThreshold(i, p, scale) ==
  /\ edgeDistanceSq(i, p) # NaN
  /\ edgeDistanceSq(i, p) * scale * scale < 2500

\* C5: in every state, for every point and view scale, the edge returned by
\* getClosestSelectableEdge is an edge of the list whose slot is empty, whose
\* distance is below 50 / viewScale and than which no edge with an empty slot
\* is closer; nothing is returned exactly when no edge with an empty slot is
\* below the threshold.
NearestEdgeQuery ==
  \A p \in CursorPositions(svgUrl), scale \in ViewScales :
    LET e == getClosestSelectableEdge(selectedEdges, p, scale)
    IN /\ e \in selectable \cup {0}
       /\ e # 0 =>
            /\ belowThreshold(e, p, scale)
            /\ \A j \in selectable :
                 ~distanceLess(edgeDistanceSq(j, p), edgeDistanceSq(e, p))
       /\ e = 0 <=> \A j \in selectable : ~belowThreshold(j, p, scale)

\* With the right slot filled, the query at (15, 50) returns the left edge of
\* the left mark, 7 away, at scale 1, and nothing at scale 10, where the
\* threshold is 5; with the slot empty its nearest edge is exactly 5 away.
NearestEdgeQueryWitness ==
  /\ svgUrl = "frame"
  /\ selectedEdges.right # 0
  /\ selectedEdges.left = 0
  /\ LET p == [x |-> 15, y |-> 50]
         e == getClosestSelectableEdge(selectedEdges, p, 1)
     IN /\ e # 0
        /\ edges[e] = [kind |-> "left", x |-> 8, y |-> 8, height |-> 84]
        /\ edgeDistanceSq(e, p) = 49
        /\ getClosestSelectableEdge(selectedEdges, p, 10) = 0
        /\ \E j \in 1..Len(edges) : edgeDistanceSq(j, p) = 25

\* The cells that the claim's cascade from the i-th cell covers.
cascaded(i) ==
  {j \in 1..Len(cells) :
     /\ cells[j].rect.y > cells[i].rect.y + cells[i].rect.height
     /\ 2 * cells[j].rect.x <= 2 * cells[i].rect.x + cells[i].rect.width
     /\ 2 * cells[i].rect.x + cells[i].rect.width
          <= 2 * (cells[j].rect.x + cells[j].rect.width)}

\* The numberings of a set of cells by 1, 2, ... in ascending rect.y.
ascendingRanks(S) ==
  {f \in [S -> 1..Cardinality(S)] :
     /\ \A j, k \in S : j # k => f[j] # f[k]
     /\ \A j, k \in S : cells[j].rect.y < cells[k].rect.y => f[j] < f[k]}

\* C6: after the i-th cell is given a name that parses as (column, row), the
\* cells strictly below its bottom whose span contains its centre are named
\* column(row+1), column(row+2), ... in ascending rect.y, and the name of
\* every other cell but the i-th is as before (and so is every rect and id).
RenameCascade ==
  [][\A i \in 1..Len(cells), value \in NameInputs :
       (handleCellNameInput(i, value) /\ cellNameToCellPosition(value) # Undefined)
         => LET pos == cellNameToCellPosition(value)
                S == cascaded(i)
            IN /\ Len(cells') = Len(cells)
               /\ \A j \in 1..Len(cells) :
                    /\ cells'[j].rect = cells[j].rect
                    /\ cells'[j].id = cells[j].id
                    /\ (j \notin S /\ j # i) => cells'[j].name = cells[j].name
               /\ i \notin S => cells'[i].name = value
               /\ \E f \in ascendingRanks(S) :
                    \A j \in S :
                      cells'[j].name =
                        <<pos.column>> \o numberToString(pos.row + f[j])]_vars

\* The cell created third is the topmost and was renamed b9; the two created
\* before it, the lower one first, are named b10 and b11 from the top.
RenameCascadeWitness ==
  /\ svgUrl = "column"
  /\ Len(cells) = 3
  /\ cells[1].id = 1 /\ cells[2].id = 2 /\ cells[3].id = 3
  /\ cells[3].rect.y = 100 /\ cells[3].name = <<"b", "9">>
  /\ cells[2].rect.y = 360 /\ cells[2].name = <<"b", "1", "0">>
  /\ cells[1].rect.y = 620 /\ cells[1].name = <<"b", "1", "1">>

\* The existing cells above a new cell of the given rect, in the claim's
\* terms.
above(rect) ==
  {j \in 1..Len(cells) :
     /\ cells[j].rect.y + cells[j].rect.height < rect.y
     /\ 2 * cells[j].rect.x <= 2 * rect.x + rect.width
     /\ 2 * rect.x + rect.width <= 2 * (cells[j].rect.x + cells[j].rect.width)}

\* C7: a completed cell is named after the cell of the greatest bottom among
\* those above it, with the row one higher, if that cell's name parses;
\* otherwise, or if no cell is above it, its name is the decimal text of its
\* id, which is the creation counter.
LabelInference ==
  [][\A p \in CursorPositions(svgUrl) :
       (handleClick(p) /\ Len(cells') > Len(cells))
         => LET new == Last(cells')
                A == above(new.rect)
                default == numberToString(cellCreatedCount')
            IN /\ new.id = cellCreatedCount'
               /\ A = {} => new.name = default
               /\ A # {} =>
                    \E c \in A :
                      /\ \A j \in A :
                           cells[j].rect.y + cells[j].rect.height
                             <= cells[c].rect.y + cells[c].rect.height
                      /\ LET pos == cellNameToCellPosition(cells[c].name)
                         IN new.name =
                              IF pos = Undefined THEN default
                              ELSE <<pos.column>> \o numberToString(pos.row + 1)]_vars

\* Under the top cell named b9 and a middle cell renamed z9, the bottom cell
\* kept its default name 3; the cell of the greatest bottom above it is the
\* middle one, not the top one.
LabelInferenceWitness ==
  /\ svgUrl = "column"
  /\ Len(cells) = 3
  /\ cells[1].rect = [x |-> 100, y |-> 100, width |-> 600, height |-> 200]
  /\ cells[1].name = <<"b", "9">>
  /\ cells[2].rect = [x |-> 100, y |-> 360, width |-> 600, height |-> 200]
  /\ cells[2].name = <<"z", "9">>
  /\ cells[3].rect = [x |-> 100, y |-> 620, width |-> 600, height |-> 200]
  /\ cells[3].name = <<"3">>

\* The four edges of the frame that face its inside.
inwardEdges ==
  [right |-> [kind |-> "right", x |-> 10, y |-> 8, height |-> 84],
   bottom |-> [kind |-> "bottom", x |-> 8, y |-> 10, width |-> 84],
   left |-> [kind |-> "left", x |-> 90, y |-> 8, height |-> 84],
   top |-> [kind |-> "top", x |-> 8, y |-> 90, width |-> 84]]

\* The click at p completes the first cell of the document from the four
\* inward edges.
completesInwardFirst(p) ==
  /\ handleClick(p)
  /\ cellCreatedCount = 0
  /\ Len(cells') > Len(cells)
  /\ LET e == getClosestSelectableEdge(selectedEdges, p, viewScale)
         sel == [selectedEdges EXCEPT ![edges[e].kind] = e]
     IN \A k \in Kinds : edges[sel[k]] = inwardEdges[k]

frameCell == [id |-> 1, name |-> <<"1">>,
              rect |-> [x |-> 10, y |-> 10, width |-> 80, height |-> 80]]

\* C8 as stated: the frame document yields exactly 4 edges, and selecting all
\* four produces the one cell of rect (10, 10, 80, 80) named 1.
FrameYieldsFourEdges ==
  /\ [](svgUrl = "frame" => Len(edges) = 4)
  /\ [][\A p \in CursorPositions(svgUrl) :
          (handleClick(p) /\ cellCreatedCount = 0 /\ Len(cells') > Len(cells))
            => cells' = <<frameCell>>]_vars

\* C8, amended: the frame document yields exactly 16 edges, four per border
\* rectangle, and selecting the four that face the inside, in any order, as
\* the first completion produces the one cell of rect (10, 10, 80, 80)
\* named 1.
FrameYieldsSixteenEdges ==
  /\ [](svgUrl = "frame" => Len(edges) = 16)
  /\ [][\A p \in CursorPositions(svgUrl) :
          completesInwardFirst(p) => cells' = <<frameCell>>]_vars

\* The frame is loaded, has 16 edges, and its first cell has been completed
\* from the inward edges; the left and right ones are still selected.
FrameWitness ==
  /\ svgUrl = "frame"
  /\ Len(edges) = 16
  /\ cells = <<frameCell>>
  /\ cellCreatedCount = 1
  /\ selectedEdges.left # 0 /\ edges[selectedEdges.left] = inwardEdges.left
  /\ selectedEdges.right # 0 /\ edges[selectedEdges.right] = inwardEdges.right
  /\ selectedEdges.top = 0 /\ selectedEdges.bottom = 0

\* The corner list is that of a rectangle with sides along the axes.
axisAligned(ps) ==
  \E c \in Centres, s \in Shapes, f \in Orderings :
    ps = reordered(rectangleCorners(c, AxisDirection, s), f)

\* C11: for the four corners of an axis-aligned rectangle, in any order,
\* pointsToRect returns the Rect of its left, top, width and height.
ReconstructorOrderInvariant ==
  (reconstructed # Pending /\ axisAligned(corners))
    => reconstructed = BoundingRect(corners)

\* The corners of a standing mark were handed over in the order bottom-right,
\* top-left, bottom-left, top-right and its Rect came back.
ReconstructorOrderWitness ==
  /\ corners = << [x |-> 102, y |-> 280], [x |-> 98, y |-> -200],
                  [x |-> 98, y |-> 280], [x |-> 102, y |-> -200] >>
  /\ reconstructed = [x |-> 98, y |-> -200, width |-> 4, height |-> 480]

\* C12: the corners of a rectangle turned by a fraction of a degree give a
\* Rect, whatever its elongation; turned by more than a few degrees they give
\* none.
RotationTolerance ==
  reconstructed # Pending =>
    \A c \in Centres, s \in Shapes, f \in Orderings :
      /\ \A d \in SlightDirections :
           corners = reordered(rectangleCorners(c, d, s), f)
             => reconstructed # Undefined
      /\ \A d \in SteepDirections :
           corners = reordered(rectangleCorners(c, d, s), f)
             => reconstructed = Undefined

\* The cells whose name does not parse.
invalidCells ==
  {i \in 1..Len(cells) : cellNameToCellPosition(cells[i].name) = Undefined}

\* Key a is not after key b in the order of CellPositions: by column, then
\* by row.
notAfter(a, b) ==
  LET pa == cellNameToCellPosition(a)
      pb == cellNameToCellPosition(b)
  IN \/ columnRank(pa.column) < columnRank(pb.column)
     \/ pa.column = pb.column /\ pa.row <= pb.row

\* C13: an export while some name does not parse writes nothing, alerts with
\* one of the names that do not parse and leaves the editor alone; an export
\* while all names parse writes a mapping from exactly the names of the
\* cells, each to the rect of a cell of that name, with its keys in ascending
\* CellPosition order, and writes the same again if no cell was edited since
\* the last write.
ExportBlocking ==
  [][handleCopyOutput =>
       /\ UNCHANGED editorVars
       /\ IF invalidCells # {}
          THEN /\ clipboard' = clipboard
               /\ alertMessage'.shown
               /\ \E i \in invalidCells : alertMessage'.name = cells[i].name
          ELSE /\ clipboard'.written
               /\ alertMessage' = alertMessage
               /\ LET out == clipboard'.text
                  IN /\ {out[k].key : k \in 1..Len(out)}
                          = {cells[i].name : i \in 1..Len(cells)}
                     /\ \A k \in 1..Len(out) :
                          /\ \E i \in 1..Len(cells) :
                               /\ cells[i].name = out[k].key
                               /\ cells[i].rect = out[k].value
                          /\ \A l \in (k + 1)..Len(out) :
                               /\ out[k].key # out[l].key
                               /\ notAfter(out[k].key, out[l].key)
               /\ (clipboard.written /\ copied = cells)
                    => clipboard' = clipboard]_vars

\* After an export that a cell named z9 had blocked, the cells named b10 and
\* b9, in this order in the list, were exported with b9 first.
ExportBlockingWitness ==
  /\ alertMessage = [shown |-> TRUE, name |-> <<"z", "9">>]
  /\ Len(cells) = 2
  /\ cells[1].name = <<"b", "1", "0">>
  /\ cells[2].name = <<"b", "9">>
  /\ cells[1].rect # cells[2].rect
  /\ copied = cells
  /\ clipboard.written
  /\ clipboard.text = << [key |-> <<"b", "9">>, value |-> cells[2].rect],
                         [key |-> <<"b", "1", "0">>, value |-> cells[1].rect] >>

\* C14: in every reachable state each slot is empty or holds an edge of the
\* edge list of the slot's kind, and no step but the loading of a document
\* changes the edge list.
SlotKindInvariant ==
  /\ [](\A k \in Kinds :
          selectedEdges[k] # 0 =>
            /\ selectedEdges[k] \in 1..Len(edges)
            /\ edges[selectedEdges[k]].kind = k)
  /\ [][~handleSvgInput("frame") => edges' = edges]_vars

\* Three slots hold edges of the frame, one of them the outer edge of the
\* left border, while a cell exists and another edge is highlighted.
SlotKindWitness ==
  /\ Len(cells) = 1
  /\ selectedEdges.bottom = 0
  /\ selectedEdges.top # 0 /\ selectedEdges.right # 0
  /\ selectedEdges.left # 0
  /\ edges[selectedEdges.left] = [kind |-> "left", x |-> 8, y |-> 8, height |-> 84]
  /\ highlightedEdge # 0
  /\ edges[highlightedEdge].kind = "bottom"

\* C15: the ids of the cells in the list are pairwise distinct and none
\* exceeds the creation counter; in every step but the loading of a document
\* the counter does not decrease and every cell of the list afterwards either
\* was in the list before, with the same id and rect, or has an id above the
\* counter before the step, that is above every id given out so far.
CellIdentity ==
  /\ [](/\ \A i, j \in 1..Len(cells) : i # j => cells[i].id # cells[j].id
        /\ \A i \in 1..Len(cells) : cells[i].id \in 1..cellCreatedCount)
  /\ [][~handleSvgInput("frame") =>
          /\ cellCreatedCount' >= cellCreatedCount
          /\ \A j \in 1..Len(cells') :
               \/ cells'[j].id > cellCreatedCount
               \/ \E i \in 1..Len(cells) :
                    /\ cells[i].id = cells'[j].id
                    /\ cells[i].rect = cells'[j].rect]_vars

\* The first cell was deleted and the second, of id 2, was renamed b9; the
\* left and right slots are still filled.
CellIdentityWitness ==
  /\ keepVerticalSelection
  /\ cellCreatedCount = 2
  /\ Len(cells) = 1
  /\ cells[1].id = 2
  /\ cells[1].name = <<"b", "9">>
  /\ selectedEdges.left # 0 /\ selectedEdges.right # 0

\* C16: a string that cellNameToCellPosition accepts gives a column in a..h
\* and a row of at least 1, and cellPositionToCellName of the result is the
\* string.
CellPositionParsing ==
  (position # Pending /\ position # Undefined) =>
    /\ position.column \in ColumnChars
    /\ position.row >= 1
    /\ printed.done => printed.text = nameArg

\* The delivery loops in progress: suspended in a sleep or inside f.
activeLoops == Len(timers) + depth

\* The step is a call().
isCall == Len(submitted') = Len(submitted) + 1

\* C17: at most one delivery loop is in progress, and one is exactly while
\* looping is set; a call() starts a loop, delivering its value within the
\* call, exactly when looping is not set; and a sleep that ends with nothing
\* queued ends the loop and clears looping.
ThrottleSingleFlight ==
  /\ [](activeLoops <= 1 /\ (looping <=> activeLoops = 1))
  /\ [][/\ (isCall /\ looping) =>
             /\ activeLoops' = activeLoops
             /\ delivered' = delivered
        /\ (isCall /\ ~looping) =>
             /\ looping'
             /\ activeLoops' = 1
             /\ delivered' = Append(delivered, Last(submitted'))
        /\ (Len(timers') < Len(timers) /\ ~queued) =>
             /\ ~looping'
             /\ activeLoops' = 0
             /\ delivered' = delivered]_vars

\* Two loops have run one after the other, each delivering the one value
\* submitted to it, and the second has ended.
ThrottleSingleFlightWitness ==
  /\ ~looping
  /\ activeLoops = 0
  /\ Len(submitted) = 2
  /\ deliveredAt = <<1, 2>>
  /\ lastWoken = 2

\* The step completes a cell.
isCompletion == Len(cells') = Len(cells) + 1

\* The left and right slots are filled with the edges that bound the rect.
framedBySides(sel, rect) ==
  /\ sel.left # 0 /\ sel.right # 0
  /\ rect.x = edges[sel.right].x
  /\ rect.width = edges[sel.left].x - edges[sel.right].x

\* C18: a completion leaves the top and bottom slots empty; with the policy
\* disabled it leaves all four slots empty; with it enabled the left and
\* right slots hold afterwards the edges that bound the new cell, the ones
\* they held before when they were filled. While both side slots are filled
\* nothing but a completion, the clear button or a new document changes
\* them, so the completion that follows a kept pair needs the top and bottom
\* slots only and its cell has the x and width of the cell the pair bounded.
KeepVerticalPolicy ==
  [][/\ isCompletion =>
          LET cell == cells'[Len(cells')]
          IN /\ selectedEdges'.top = 0 /\ selectedEdges'.bottom = 0
             /\ ~keepVerticalSelection => selectedEdges' = NoSelection
             /\ keepVerticalSelection =>
                  /\ framedBySides(selectedEdges', cell.rect)
                  /\ selectedEdges.left # 0 =>
                       selectedEdges'.left = selectedEdges.left
                  /\ selectedEdges.right # 0 =>
                       selectedEdges'.right = selectedEdges.right
             /\ (/\ cells # <<>>
                 /\ framedBySides(selectedEdges, cells[Len(cells)].rect)) =>
                  /\ cell.rect.x = cells[Len(cells)].rect.x
                  /\ cell.rect.width = cells[Len(cells)].rect.width
     /\ (/\ selectedEdges.left # 0 /\ selectedEdges.right # 0
         /\ ~isCompletion
         /\ ~clearSelection
         /\ ~handleSvgInput("frame")) =>
          /\ selectedEdges'.left = selectedEdges.left
          /\ selectedEdges'.right = selectedEdges.right]_vars

\* Two cells made one after the other from one kept pair of sides: they
\* differ in y, share x and width, and the pair is still in its slots.
KeepVerticalPolicyWitness ==
  /\ keepVerticalSelection
  /\ Len(cells) = 2
  /\ cells[1].id = 1 /\ cells[2].id = 2
  /\ cells[1].rect.y # cells[2].rect.y
  /\ cells[1].rect.x = cells[2].rect.x
  /\ cells[1].rect.width = cells[2].rect.width
  /\ framedBySides(selectedEdges, cells[2].rect)
  /\ selectedEdges.top = 0 /\ selectedEdges.bottom = 0

\* `rs` begins with `ps`.
isPrefix(ps, rs) == Len(ps) <= Len(rs) /\ SubSeq(rs, 1, Len(ps)) = ps

\* C19: a curve command makes pathToRects return without emitting anything;
\* once it has returned, the Rects stay as they are until findRects takes
\* them over, whatever points were in progress; while it runs, Rects are
\* only added at the end; findRects pushes exactly the Rects returned after
\* those of the paths before, and the next path starts from the origin with
\* no points and no Rects.
CurveCutOff ==
  [][/\ (~pathDone /\ lastCommand' \in CurveCommands) =>
          /\ pathDone'
          /\ rects' = rects
     /\ (pathDone /\ npath' = npath) => rects' = rects
     /\ npath' = npath => /\ isPrefix(rects, rects')
                          /\ found' = found
     /\ npath' # npath =>
          /\ pathDone
          /\ found' = found \o rects
          /\ points' = <<>> /\ rects' = <<>> /\ x' = 0 /\ y' = 0
          /\ ~pathDone']_vars

\* The second path was cut off by a curve after it had emitted a Rect and
\* with points in progress; the first path had given a Rect too.
CurveCutOffWitness ==
  /\ npath = 1
  /\ found # <<>>
  /\ pathDone
  /\ lastCommand \in CurveCommands
  /\ rects # <<>>
  /\ points # <<>>

\* C20: handleCellDelete of a cell of the list leaves the other cells as
\* they were, in their order, and removes that one; of a cell that is not in
\* the list it changes nothing; either way the slots, the highlighted edge,
\* the creation counter and the edges stay as they were.
DeleteFrame ==
  [][\A id \in 1..MaxCells :
       handleCellDelete(id) =>
         /\ IF \E i \in 1..Len(cells) : cells[i].id = id
            THEN /\ Len(cells') = Len(cells) - 1
                 /\ cells' = SelectSeq(cells, LAMBDA c : c.id # id)
            ELSE cells' = cells
         /\ selectedEdges' = selectedEdges
         /\ highlightedEdge' = highlightedEdge
         /\ cellCreatedCount' = cellCreatedCount
         /\ edges' = edges]_vars

\* The first of two cells was deleted while two slots were filled and an edge
\* highlighted; the second is left with its id and its name b9, and the
\* first is no longer in the list, so that deleting it again is the other
\* case.
DeleteFrameWitness ==
  /\ cellCreatedCount = 2
  /\ Len(cells) = 1
  /\ cells[1].id = 2
  /\ cells[1].name = <<"b", "9">>
  /\ indexOf(cells, 1) = 0
  /\ selectedEdges.left # 0 /\ selectedEdges.right # 0
  /\ highlightedEdge # 0

\* C21: every cell of the list has a width and a height that are not
\* negative.
CellRectSign ==
  \A i \in 1..Len(cells) :
    /\ cells[i].rect.width >= 0
    /\ cells[i].rect.height >= 0

\* C22: the mapping written last has exactly one entry for each cell of the
\* list it was made from, each under that cell's name and holding that
\* cell's rect.
ExportCompleteness ==
  clipboard.written =>
    /\ Len(clipboard.text) = Len(copied)
    /\ \A i \in 1..Len(copied) :
         \E k \in 1..Len(clipboard.text) :
           /\ clipboard.text[k].key = copied[i].name
           /\ clipboard.text[k].value = copied[i].rect

\* The highlighted edge is none, or an edge of the list whose slot is empty.
highlightSelectable(h, sel) ==
  \/ h = 0
  \/ /\ h \in 1..Len(edges)
     /\ sel[edges[h].kind] = 0

\* C23: after a click, a delivered pointer move or the clear button the
\* highlighted edge is none or an edge of the list whose kind's slot is
\* empty, and it is none after a completion.
HighlightConsistency ==
  [][(\/ \E p \in CursorPositions(svgUrl) \cup {NoPosition} : handleClick(p)
      \/ \E p \in CursorPositions(svgUrl) \cup {NoPosition} : handleMouseMove(p)
      \/ clearSelection) =>
        /\ highlightSelectable(highlightedEdge', selectedEdges')
        /\ isCompletion => highlightedEdge' = 0]_vars
====
